---- MODULE Spec2Model ----
(***************************************************************************)
(* Model of the Dynamic Assessment Execution Core of the reliability       *)
(* assessment engine.                                                      *)
(*                                                                         *)
(*   Spec      the assessment engine Lambda (index.py: lambda_handler,     *)
(*             run_assessment, execute_check_function, ...), one run of    *)
(*             one process, with the SIGALRM deadline timer as state.      *)
(*   SpecCore  the core engine reference handler (reliability-             *)
(*             assessment.js), from the loaded definition to the response. *)
(*   SpecTrigger  the assessment trigger (reliability-assessment-          *)
(*             trigger.js): one dispatch cycle, from the event to the      *)
(*             summary, and the start of the engine runs it enqueues.      *)
(*   SpecProcess  the engine's containers: consecutive and concurrent runs, *)
(*             the module each loads and the credentials each assumes.     *)
(*   SpecEngine  the simplified engine (assessment-engine.js) with the     *)
(*             stack and code analyzers, driven by the comprehensive test. *)
(***************************************************************************)
EXTENDS Integers, Sequences, FiniteSets, TLC

(***************************************************************************)
(* Bounds of the model.                                                    *)
(***************************************************************************)
MaxCriteria == 2
TickSeconds == 15

(***************************************************************************)
(* Program constants.                                                      *)
(***************************************************************************)
CheckTimeoutSeconds == 30
DefaultPassingScore == 80
CoreDefaultPassed == 80

(***************************************************************************)
(* Input domains.                                                          *)
(***************************************************************************)
PointValues == {5, 10}
RoutineNames == {"checkBackup", "checkDLQ"}
PassingScores == {15}
ParticipantIds == {"p1", "None"}
ChallengeIds == {"voting-system", "unknown", "None"}
RegisteredIds == {"voting-system"}

\* Python values a routine can put under the 'implemented' key.
PyValues == {"True", "False", "'yes'", "None"}

\* bool(v): the truth value Python gives v in a conditional expression.
Truthy(v) == v \in {"True", "'yes'"}

NoError == "<absent>"
MsgTimeout == "Check function execution timed out"
MsgNotDict == "Check function must return a dictionary"
MsgNoKey == "Check function result must include 'implemented' key"
MsgRoutine == "routine raised"
MsgNotFound == "Check function not found"

\* Values a check function can return: a non-dict, a dict without the key,
\* or a dict carrying 'implemented'.
ReturnValues ==
    {[isDict |-> FALSE, hasImplemented |-> FALSE, implemented |-> "None"],
     [isDict |-> TRUE, hasImplemented |-> FALSE, implemented |-> "None"]}
    \cup {[isDict |-> TRUE, hasImplemented |-> TRUE, implemented |-> v] :
            v \in PyValues}

CriteriaOfLen(n) ==
    {[i \in 1..n |-> [id |-> i, points |-> f[i][1], checkFunction |-> f[i][2]]] :
        f \in [1..n -> PointValues \X RoutineNames]}

CriteriaLists == UNION {CriteriaOfLen(n) : n \in 0..MaxCriteria}

\* Records of the challenge registry table (the fields the engine reads).
Definitions ==
    {[assessmentCriteria |-> cs, hasPassingScore |-> TRUE, passingScore |-> p] :
        cs \in CriteriaLists, p \in PassingScores}
    \cup {[assessmentCriteria |-> cs, hasPassingScore |-> FALSE, passingScore |-> 0] :
        cs \in CriteriaLists}

NoConfig == [assessmentCriteria |-> <<>>, hasPassingScore |-> FALSE, passingScore |-> 0]

\* Values of the record's 'active' attribute: the strings 'true' and 'false',
\* the booleans True and False.
ActiveValues == {"'true'", "'false'", "True", "False"}

RECURSIVE SumPoints(_)
SumPoints(s) == IF s = <<>> THEN 0 ELSE s[1].points + SumPoints(Tail(s))

(***************************************************************************)
(* Pure functions of index.py.                                             *)
(***************************************************************************)
calculate_score(assessment_results) == SumPoints(assessment_results)

calculate_max_score(challenge_config) ==
    SumPoints(challenge_config.assessmentCriteria)

\* challenge_config.get('passingScore', 80)
PassingScoreOf(challenge_config) ==
    IF challenge_config.hasPassingScore THEN challenge_config.passingScore
    ELSE DefaultPassingScore

ComputePassed(sc, challenge_config) == sc >= PassingScoreOf(challenge_config)

\* hasattr as it would be if the lookup were skipped.
hasattrUnchecked(check_functions, check_function_name) == TRUE

\* hasattr(check_functions, check_function_name)
hasattr(check_functions, check_function_name) ==
    check_function_name \in check_functions

\* The outcome appended when the routine is absent from the module.
MissingOutcome(criterion) ==
    [criterionId |-> criterion.id, points |-> 0, maxPoints |-> criterion.points,
     implemented |-> "False", error |-> MsgNotFound]

\* The outcome appended for a value execute_check_function returned.
SuccessOutcome(criterion, result) ==
    [criterionId |-> criterion.id,
     points |-> IF Truthy(result.implemented) THEN criterion.points ELSE 0,
     maxPoints |-> criterion.points,
     implemented |-> result.implemented, error |-> NoError]

\* The outcome appended by the except clause of run_assessment.
ErrorOutcome(criterion, msg) ==
    [criterionId |-> criterion.id, points |-> 0, maxPoints |-> criterion.points,
     implemented |-> "False", error |-> msg]

\* Validation of the returned value in execute_check_function: the message
\* of the ValueError it raises, or NoError when the value is returned.
ValidateResult(result) ==
    IF ~result.isDict THEN MsgNotDict
    ELSE IF ~result.hasImplemented THEN MsgNoKey
    ELSE NoError

\* The outcome run_assessment records for a value the routine returned in time.
OutcomeOfReturn(criterion, result) ==
    IF ValidateResult(result) = NoError THEN SuccessOutcome(criterion, result)
    ELSE ErrorOutcome(criterion, ValidateResult(result))

\* generate_feedback
ImplementedEntry(r) == [name |-> r.criterionId, details |-> "details"]

\* The suggestion entry as it would be if it carried the points achieved.
SuggestionEntryAchieved(r) == [name |-> r.criterionId, points |-> r.points]

SuggestionEntry(r) == [name |-> r.criterionId, points |-> r.maxPoints]

RECURSIVE FeedbackImplemented(_)
FeedbackImplemented(s) ==
    IF s = <<>> THEN <<>>
    ELSE (IF Truthy(s[1].implemented) THEN <<ImplementedEntry(s[1])>> ELSE <<>>)
         \o FeedbackImplemented(Tail(s))

RECURSIVE FeedbackSuggestions(_)
FeedbackSuggestions(s) ==
    IF s = <<>> THEN <<>>
    ELSE (IF Truthy(s[1].implemented) THEN <<>> ELSE <<SuggestionEntry(s[1])>>)
         \o FeedbackSuggestions(Tail(s))

generate_feedback(assessment_results, sc, pa) ==
    [summary |-> IF pa THEN "Congratulations" ELSE "need more improvements",
     implemented |-> FeedbackImplemented(assessment_results),
     suggestions |-> FeedbackSuggestions(assessment_results)]

NoFeedback == [summary |-> "", implemented |-> <<>>, suggestions |-> <<>>]

(***************************************************************************)
(* State of one run of the assessment engine Lambda.                       *)
(***************************************************************************)
VARIABLES
    event,          \* the invocation event: participantId, challengeId
    pc,             \* position of lambda_handler
    sub,            \* position inside one iteration of run_assessment's loop
    config,         \* challenge_config
    module,         \* names defined by the loaded check-functions module
    credentials,    \* assumed_credentials
    idx,            \* index of the criterion the loop is at
    results,        \* run_assessment's results list
    trace,          \* what happened to each criterion's routine, in loop order
    invoked,        \* indices of the criteria whose routine was entered
    late,           \* the deadline elapsed while the current routine ran
    alarm,          \* seconds left on the process's SIGALRM timer, 0 = none
    score, passed,  \* locals of lambda_handler
    feedback,       \* local of lambda_handler
    response,       \* <<value returned by lambda_handler>>
    failure,        \* <<exception raised by lambda_handler>>
    stored,         \* items written to the assessment results table
    replies,        \* last answer of each external collaborator
    calls,          \* number of calls made to each external collaborator
    log,            \* kinds of log entries written
    coreConfig, coreScore, corePc, coreResponse,  \* core engine reference
    triggerEvent,   \* the event the assessment trigger received
    deniedAccounts, \* participants whose account refuses the assessment role
    lookups,        \* how the query and the stack listing went, and the stacks listed
    enumerated,     \* the participant ids the scheduled enumeration yielded
    triggerPc,      \* position of the trigger's handler
    source,         \* identifyEventSource(event)
    participantIds, \* the list extractParticipantIds returned
    dispatch,       \* per list index: the record triggerAssessment resolved to
    triggerResponse,\* <<value returned by the trigger's handler>>
    invocations,    \* payloads handed to lambda.invoke, by list index
    engineRuns,     \* assessment engine runs started by those invocations
    clock,          \* time.time() in ticks of the wall clock
    runNo,          \* per process: number of the invocation it is handling
    runPc,          \* per process: position of lambda_handler
    loadedUnit,     \* per process: the module check_functions refers to
    runCredentials, \* per process: what assumed_credentials refers to
    stsCount,       \* per process: assume_role calls of the current run
    issued,         \* per process: the run sts last issued credentials to
    sysModules,     \* per process: sys.modules, module name -> module
    loads,          \* every load so far: process, run, module name
    routineCalls,   \* every check function call: process, run, module, credentials
    stage,          \* comprehensive test: number of the stage deployed last
    template,       \* what the deployed stack's template contains
    enginePc,       \* position of the test and of the simplified engine
    stackAnalysis,  \* the value analyzeStack returned
    testResults,    \* comprehensive test: the score of each stage, in order
    patterns,       \* analyzeCode: the score of each pattern check
    codeScore,      \* analyzeCode: the score it returned
    assessments     \* simplified engine: per run, the score, whether it was
                    \* recorded and whether the flag record was written

loadVars == <<config, module, credentials>>
loopVars == <<sub, idx, results, trace, invoked, late>>
localVars == <<score, passed, feedback>>
outVars == <<response, failure, stored>>
pyVars == <<event, pc, loadVars, loopVars, alarm, localVars, outVars, replies,
            calls, log>>
coreVars == <<coreConfig, coreScore, corePc, coreResponse>>
trigVars == <<triggerEvent, deniedAccounts, lookups, enumerated, triggerPc, source, participantIds, dispatch,
              triggerResponse, invocations, engineRuns>>
procVars == <<clock, runNo, runPc, loadedUnit, runCredentials, stsCount, issued,
              sysModules, loads, routineCalls>>
jsVars == <<stage, template, enginePc, stackAnalysis, testResults, patterns,
            codeScore, assessments>>
auxVars == <<procVars, jsVars>>
vars == <<pyVars, coreVars, trigVars, auxVars>>

NoCalls == [get_item |-> 0, get_object |-> 0, assume_role |-> 0, put_item |-> 0,
            put_metric_data |-> 0, error_metric |-> 0]

NoReplies == [registry |-> "none", s3 |-> "none", sts |-> "none",
              put |-> "none", metrics |-> "none"]

\* What the loop notes for a criterion: how its iteration ended, the value
\* the routine returned (if it returned) and whether its deadline had elapsed.
NoValue == [isDict |-> FALSE, hasImplemented |-> FALSE, implemented |-> "<none>"]

Note(k, v, l) == [kind |-> k, value |-> v, late |-> l]

Bump(c, k) == [c EXCEPT ![k] = @ + 1]

PyInit ==
    /\ pc = "Start" /\ sub = "lookup"
    /\ config = NoConfig /\ module = {} /\ credentials = "none"
    /\ idx = 1 /\ results = <<>> /\ trace = <<>>
    /\ invoked = {} /\ late = FALSE
    /\ alarm = 0 /\ score = 0 /\ passed = FALSE /\ feedback = NoFeedback
    /\ response = <<>> /\ failure = <<>> /\ stored = <<>>
    /\ replies = NoReplies /\ calls = NoCalls /\ log = {}

CoreIdle ==
    /\ coreConfig = NoConfig /\ coreScore = 0 /\ corePc = "idle"
    /\ coreResponse = <<>>

\* Neither the query nor the stack listing has been made.
NoLookups == [query |-> "none", listing |-> "none", stacks |-> <<>>]

NoTriggerEvent ==
    [source |-> "<absent>", detailType |-> "<absent>", isHttp |-> FALSE,
     stackId |-> [present |-> FALSE, hasSlash |-> FALSE, name |-> <<>>],
     pathParticipantId |-> <<>>, participantId |-> <<>>]

TrigIdle ==
    /\ triggerEvent = NoTriggerEvent /\ triggerPc = "idle" /\ source = "<none>"
    /\ enumerated = <<>> /\ deniedAccounts = {} /\ lookups = NoLookups
    /\ participantIds = <<>> /\ dispatch = <<>> /\ triggerResponse = <<>>
    /\ invocations = <<>> /\ engineRuns = {}

\* Bounds of the process model: invocations per process, wall-clock ticks
\* and ticks per second.
MaxRuns == 2
MaxClock == 2
TicksPerSecond == 2

\* Two processes (containers) of the engine.
Procs == {1, 2}

\* f"check_functions_{int(time.time())}": the name is the clock reading
\* truncated to whole seconds.
module_name(now) == now \div TicksPerSecond

ModuleNames == {module_name(t) : t \in 0..MaxClock}

\* A module or credentials reference is the <<process, run>> that created
\* it; NoRef is an unbound local.
NoRef == <<0, 0>>

ProcIdle ==
    /\ clock = 0
    /\ runNo = [p \in Procs |-> 0]
    /\ runPc = [p \in Procs |-> "idle"]
    /\ loadedUnit = [p \in Procs |-> NoRef]
    /\ runCredentials = [p \in Procs |-> NoRef]
    /\ stsCount = [p \in Procs |-> 0]
    /\ issued = [p \in Procs |-> NoRef]
    /\ sysModules = [p \in Procs |-> [n \in ModuleNames |-> NoRef]]
    /\ loads = {}
    /\ routineCalls = {}

\* Scores of the JavaScript engine are JavaScript numbers: they are counted in
\* hundredths, so that 7.5 is 750 and a whole number is a multiple of 100.
\* An analysis record without the analysis property and without an error
\* message: the value before any analysis; with an error message it is the
\* record analyzeStack returns from its catch clause.
NoAnalysis == [hasAnalysis |-> FALSE, error |-> "", multiRegion |-> 0,
               backups |-> 0]

NoPatterns == [errorHandling |-> 0, retryLogic |-> 0, circuitBreaker |-> 0,
               idempotency |-> 0, asyncProcessing |-> 0]

AuxIdle ==
    /\ ProcIdle
    /\ stage = 0 /\ template = [hasRegion |-> FALSE, pitr |-> FALSE]
    /\ enginePc = "idle" /\ stackAnalysis = NoAnalysis /\ testResults = <<>>
    /\ patterns = NoPatterns /\ codeScore = 0 /\ assessments = <<>>

Init ==
    /\ event \in [participantId : ParticipantIds, challengeId : ChallengeIds]
    /\ PyInit
    /\ CoreIdle
    /\ TrigIdle
    /\ AuxIdle

\* The except clause of lambda_handler: log, record the error metric
\* (best effort), re-raise.  c is the call count so far, logs the entries
\* written before the exception reached the handler.
Raise(msg, c, logs) ==
    /\ failure' = <<[phase |-> pc, error |-> msg]>>
    /\ pc' = "Failed"
    /\ log' = log \cup logs \cup {"Error during assessment"}
    /\ calls' = Bump(c, "error_metric")
    /\ UNCHANGED <<response, stored>>

Criteria == config.assessmentCriteria
NCriteria == Len(Criteria)

\* not participant_id or not challenge_id
MissingParameters(ev) == ev.participantId = "None" \/ ev.challengeId = "None"

\* lambda_handler, parameter extraction.
ExtractParameters ==
    /\ pc = "Start"
    /\ IF MissingParameters(event)
       THEN Raise("Missing required parameters", calls, {})
       ELSE /\ pc' = "Resolving"
            /\ log' = log \cup {"Starting assessment"}
            /\ UNCHANGED <<outVars, calls>>
    /\ UNCHANGED <<event, loadVars, loopVars, alarm, localVars, replies, coreVars, trigVars, auxVars>>

\* load_challenge_config as it would be without the test for 'Item' in the
\* response.
LoadConfigWithoutItemTest(found, active) ==
    IF found /\ ~(active = "'true'") THEN "Challenge is not active" ELSE NoError

\* load_challenge_config on the get_item response: the error it raises, or
\* NoError when the record is returned.
load_challenge_config(found, active) ==
    IF ~found THEN "Challenge not found"
    ELSE IF ~(active = "'true'") THEN "Challenge is not active"
    ELSE NoError

\* load_challenge_config: one get_item on the registry table.
ResolveDefinition ==
    /\ pc = "Resolving"
    /\ \E storeOk \in BOOLEAN, cfg \in Definitions, active \in ActiveValues :
         LET c1 == Bump(calls, "get_item")
             found == event.challengeId \in RegisteredIds
             err == load_challenge_config(found, active)
         IN  IF ~storeOk
             THEN /\ replies' = [replies EXCEPT !.registry = "error"]
                  /\ Raise("Failed to load challenge configuration", c1,
                           {"DynamoDB error"})
                  /\ UNCHANGED config
             ELSE /\ replies' = [replies EXCEPT !.registry =
                                    IF found THEN active ELSE "missing"]
                  /\ IF err # NoError
                     THEN /\ Raise(err, c1, {})
                          /\ UNCHANGED config
                     ELSE /\ config' = cfg
                          /\ pc' = "Loading"
                          /\ calls' = c1
                          /\ log' = log \cup {"Loaded challenge configuration"}
                          /\ UNCHANGED outVars
    /\ UNCHANGED <<event, module, credentials, loopVars, alarm, localVars,
                   coreVars, trigVars, auxVars>>

\* load_check_functions_from_s3 as it would be if it logged a failed fetch and
\* returned instead of raising.
LoadSwallowingFetchError(fetch) == NoError

\* load_check_functions_from_s3 on the get_object outcome: the error it
\* raises, or NoError when the module is returned.
load_check_functions_from_s3(fetch) ==
    IF fetch = "client-error" THEN "Failed to load check functions from S3"
    ELSE IF fetch = "bad-code" THEN "Failed to load check functions"
    ELSE NoError

LoadBundle ==
    /\ pc = "Loading"
    /\ \E fetch \in {"ok", "client-error", "bad-code"}, m \in SUBSET RoutineNames :
         LET c1 == Bump(calls, "get_object")
             err == load_check_functions_from_s3(fetch)
         IN  /\ replies' = [replies EXCEPT !.s3 = fetch]
             /\ IF err # NoError
                THEN /\ Raise(err, c1, {"Error loading check functions"})
                     /\ UNCHANGED module
                ELSE /\ module' = m
                     /\ pc' = "Authorizing"
                     /\ calls' = c1
                     /\ log' = log \cup {"Loaded check functions from S3"}
                     /\ UNCHANGED outVars
    /\ UNCHANGED <<event, config, credentials, loopVars, alarm, localVars,
                   coreVars, trigVars, auxVars>>

\* logger.info(f"Assuming role: {role_arn} with external ID: {external_id}"):
\* the log entry that carries the external id.
ExternalIdLogEntry == "Assuming role with external ID"

\* assume_assessment_role on the assume_role outcome.
assume_assessment_role(stsOk) ==
    IF stsOk THEN NoError ELSE "Failed to assume role in participant account"

\* identify_team_account, assume_assessment_role: one assume_role call.
AssumeRole ==
    /\ pc = "Authorizing"
    /\ \E stsOk \in BOOLEAN :
         LET c1 == Bump(calls, "assume_role")
             err == assume_assessment_role(stsOk)
         IN  /\ replies' = [replies EXCEPT !.sts =
                               IF stsOk THEN "credentials" ELSE "client-error"]
             /\ IF err # NoError
                THEN /\ Raise(err, c1, {ExternalIdLogEntry,
                                        "Error assuming role"})
                     /\ UNCHANGED credentials
                ELSE /\ credentials' = "assumed"
                     /\ pc' = "Evaluating"
                     /\ calls' = c1
                     /\ log' = log \cup {ExternalIdLogEntry,
                                         "Assumed role in team account"}
                     /\ UNCHANGED outVars
    /\ UNCHANGED <<event, config, module, loopVars, alarm, localVars, coreVars, trigVars, auxVars>>

(***************************************************************************)
(* run_assessment: the loop over the criteria, one iteration at a time.    *)
(*   sub = "lookup"   at the head of the iteration, outside the try        *)
(*   sub = "call"     inside the try, before signal.alarm(30)              *)
(*   sub = "running"  inside the check function                            *)
(***************************************************************************)
InLoop == pc = "Evaluating" /\ idx <= NCriteria

\* NextCriterion as it would be if an iteration that ended in an error went on
\* to the next criterion without appending its outcome.
NextCriterionDroppingErrors(o, t) ==
    /\ results' = IF o.error = NoError THEN Append(results, o) ELSE results
    /\ trace' = Append(trace, t)
    /\ idx' = idx + 1
    /\ sub' = "lookup"
    /\ late' = FALSE

\* NextCriterion as it would be if an iteration that ended in a timeout were
\* run again instead of appending the outcome.
NextCriterionRetryingTimeout(o, t) ==
    IF o.error = MsgTimeout
    THEN /\ sub' = "call"
         /\ late' = FALSE
         /\ UNCHANGED <<results, trace, idx>>
    ELSE /\ results' = Append(results, o)
         /\ trace' = Append(trace, t)
         /\ idx' = idx + 1
         /\ sub' = "lookup"
         /\ late' = FALSE

\* The iteration ends with outcome o appended and t noted for the criterion.
NextCriterion(o, t) ==
    /\ results' = Append(results, o)
    /\ trace' = Append(trace, t)
    /\ idx' = idx + 1
    /\ sub' = "lookup"
    /\ late' = FALSE

\* hasattr is false: the routine-not-found outcome, then continue.
RoutineMissing ==
    /\ InLoop /\ sub = "lookup"
    /\ ~hasattr(module, Criteria[idx].checkFunction)
    /\ NextCriterion(MissingOutcome(Criteria[idx]), Note("missing", NoValue, FALSE))
    /\ log' = log \cup {"Check function not found in module"}
    /\ UNCHANGED <<event, pc, loadVars, invoked, alarm, localVars, outVars,
                   replies, calls, coreVars, trigVars, auxVars>>

\* hasattr is true: enter the try block.
EnterTry ==
    /\ InLoop /\ sub = "lookup"
    /\ hasattr(module, Criteria[idx].checkFunction)
    /\ sub' = "call"
    /\ log' = log \cup {"Checking criterion"}
    /\ UNCHANGED <<event, pc, loadVars, idx, results, trace, invoked, late,
                   alarm, localVars, outVars, replies, calls, coreVars, trigVars, auxVars>>

\* execute_check_function up to the call: signal.alarm(30), then the routine
\* is entered with the run's credentials.
InvokeRoutine ==
    /\ InLoop /\ sub = "call"
    /\ alarm' = CheckTimeoutSeconds
    /\ sub' = "running"
    /\ invoked' = invoked \cup {idx}
    /\ UNCHANGED <<event, pc, loadVars, idx, results, trace, late, localVars,
                   outVars, replies, calls, log, coreVars, trigVars, auxVars>>

\* What signal.alarm(0) leaves on the timer after the routine returned.
AlarmAfterReturn(a) == 0

\* What is left on the timer when the routine raised: the exception skips
\* signal.alarm(0).
AlarmAfterRaise(a) == a

\* The routine returns a value: the timer is cancelled, the value validated,
\* the outcome appended.
RoutineReturns ==
    /\ InLoop /\ sub = "running"
    /\ \E v \in ReturnValues :
         /\ NextCriterion(OutcomeOfReturn(Criteria[idx], v),
                          Note("returned", v, late))
         /\ log' = log \cup (IF ValidateResult(v) = NoError
                             THEN {"Criterion result"}
                             ELSE {"Error in check function execution",
                                   "Error executing check function"})
    /\ alarm' = AlarmAfterReturn(alarm)
    /\ UNCHANGED <<event, pc, loadVars, invoked, localVars, outVars, replies,
                   calls, coreVars, trigVars, auxVars>>

\* The routine raises: execute_check_function logs and re-raises,
\* run_assessment's except clause appends the error outcome.
RoutineRaises ==
    /\ InLoop /\ sub = "running"
    /\ NextCriterion(ErrorOutcome(Criteria[idx], MsgRoutine),
                     Note("raised", NoValue, late))
    /\ alarm' = AlarmAfterRaise(alarm)
    /\ log' = log \cup {"Error in check function execution",
                        "Error executing check function"}
    /\ UNCHANGED <<event, pc, loadVars, invoked, localVars, outVars, replies,
                   calls, coreVars, trigVars, auxVars>>

(***************************************************************************)
(* The SIGALRM timer.  Time passes in steps of TickSeconds; when the timer *)
(* runs out the handler raises TimeoutError at the position the code is at.*)
(***************************************************************************)
Running == pc \in {"Start", "Resolving", "Loading", "Authorizing", "Evaluating",
                   "Scoring", "Persisting", "Metrics"}

TimePasses ==
    /\ Running /\ alarm > TickSeconds
    /\ alarm' = alarm - TickSeconds
    /\ UNCHANGED <<event, pc, loadVars, loopVars, localVars, outVars, replies,
                   calls, log, coreVars, trigVars, auxVars>>

Expires == Running /\ alarm > 0 /\ alarm <= TickSeconds

\* Where run_assessment's except clause catches a TimeoutError raised at
\* position (p, s): inside the try block of an iteration.
CaughtByRunAssessment(p, s) == p = "Evaluating" /\ s \in {"call", "running"}

\* The deadline elapses while the routine runs and the TimeoutError leaves
\* the routine: it passes execute_check_function and is caught by
\* run_assessment.
DeadlineExpires ==
    /\ Expires /\ InLoop /\ sub = "running"
    /\ alarm' = 0
    /\ IF CaughtByRunAssessment(pc, sub)
       THEN /\ NextCriterion(ErrorOutcome(Criteria[idx], MsgTimeout),
                             Note("timeout", NoValue, TRUE))
            /\ log' = log \cup {"Error in check function execution",
                                "Error executing check function"}
            /\ UNCHANGED <<pc, outVars, calls>>
       ELSE /\ Raise(MsgTimeout, calls, {})
            /\ late' = TRUE
            /\ UNCHANGED <<results, trace, idx, sub>>
    /\ UNCHANGED <<event, loadVars, invoked, localVars, replies, coreVars, trigVars, auxVars>>

\* The deadline elapses while the routine runs inside one of its own
\* try/except Exception blocks: the routine handles the TimeoutError and goes
\* on, with no timer left.
RoutineSwallowsTimeout ==
    /\ Expires /\ InLoop /\ sub = "running"
    /\ alarm' = 0
    /\ late' = TRUE
    /\ UNCHANGED <<event, pc, loadVars, sub, idx, results, trace, invoked,
                   localVars, outVars, replies, calls, log, coreVars, trigVars, auxVars>>

\* A timer left armed by an earlier iteration runs out inside the try block,
\* before the routine of this iteration is entered.
StaleAlarmInTry ==
    /\ Expires /\ InLoop /\ sub = "call"
    /\ alarm' = 0
    /\ NextCriterion(ErrorOutcome(Criteria[idx], MsgTimeout),
                     Note("stale-timeout", NoValue, FALSE))
    /\ log' = log \cup {"Error executing check function"}
    /\ UNCHANGED <<event, pc, loadVars, invoked, localVars, outVars, replies,
                   calls, coreVars, trigVars, auxVars>>

\* A timer left armed runs out outside every try block that catches it:
\* at the head of an iteration, or in lambda_handler after run_assessment.
StaleAlarmEscapes ==
    /\ Expires
    /\ \/ pc = "Evaluating" /\ sub = "lookup"
       \/ pc \in {"Scoring", "Persisting"}
    /\ alarm' = 0
    /\ Raise(MsgTimeout, calls, {})
    /\ UNCHANGED <<event, loadVars, loopVars, localVars, replies, coreVars, trigVars, auxVars>>

\* run_assessment returns its list to lambda_handler.
FinishEvaluation ==
    /\ pc = "Evaluating" /\ idx > NCriteria /\ sub = "lookup"
    /\ pc' = "Scoring"
    /\ log' = log \cup {"Completed assessment"}
    /\ UNCHANGED <<event, loadVars, loopVars, alarm, localVars, outVars,
                   replies, calls, coreVars, trigVars, auxVars>>

\* lambda_handler: calculate_score, the pass decision, generate_feedback.
Score ==
    /\ pc = "Scoring"
    /\ score' = calculate_score(results)
    /\ passed' = ComputePassed(calculate_score(results), config)
    /\ feedback' = generate_feedback(results, score', passed')
    /\ pc' = "Persisting"
    /\ UNCHANGED <<event, loadVars, loopVars, alarm, outVars, replies, calls,
                   log, coreVars, trigVars, auxVars>>

\* What store_assessment_results does with a ClientError of put_item:
\* "raise" re-raises it to lambda_handler, "continue" would go on.
OnStoreError == "raise"

\* store_assessment_results: one put_item on the results table.
Persist ==
    /\ pc = "Persisting"
    /\ \E putOk \in BOOLEAN :
         LET c1 == Bump(calls, "put_item")
             item == [participantId |-> event.participantId,
                      challengeId |-> event.challengeId,
                      score |-> score, details |-> results, passed |-> passed]
         IN  /\ replies' = [replies EXCEPT !.put = IF putOk THEN "ok"
                                                   ELSE "client-error"]
             /\ IF putOk
                THEN /\ stored' = Append(stored, item)
                     /\ pc' = "Metrics"
                     /\ calls' = c1
                     /\ log' = log \cup {"Stored assessment results"}
                     /\ UNCHANGED <<response, failure>>
                ELSE IF OnStoreError = "raise"
                THEN Raise("Failed to store assessment results", c1,
                           {"DynamoDB error"})
                ELSE /\ pc' = "Metrics"
                     /\ calls' = c1
                     /\ log' = log \cup {"DynamoDB error"}
                     /\ UNCHANGED outVars
    /\ UNCHANGED <<event, loadVars, loopVars, alarm, localVars, coreVars, trigVars, auxVars>>

\* The value lambda_handler returns.
HandlerResponse ==
    [participantId |-> event.participantId, challengeId |-> event.challengeId,
     score |-> score, maxScore |-> calculate_max_score(config),
     passed |-> passed, results |-> results, feedback |-> feedback]

\* record_assessment_metrics as it would be if it re-raised the sink's error.
RecordMetricsRaising(sinkOk) ==
    IF sinkOk THEN NoError ELSE "Failed to record metrics"

\* record_assessment_metrics on the put_metric_data outcome: its except
\* clause logs the error and raises nothing.
record_assessment_metrics(sinkOk) == NoError

\* record_assessment_metrics, then the return statement.
RecordMetricsAndReturn ==
    /\ pc = "Metrics"
    /\ \E sinkOk \in BOOLEAN :
         LET c1 == Bump(calls, "put_metric_data")
             err == record_assessment_metrics(sinkOk)
             logs == IF sinkOk THEN {} ELSE {"Failed to record metrics"}
         IN  /\ replies' = [replies EXCEPT !.metrics = IF sinkOk THEN "ok"
                                                       ELSE "error"]
             /\ IF err # NoError
                THEN Raise(err, c1, logs)
                ELSE /\ log' = log \cup logs
                     /\ calls' = c1
                     /\ response' = <<HandlerResponse>>
                     /\ pc' = "Persisted"
                     /\ UNCHANGED <<failure, stored>>
    /\ UNCHANGED <<event, loadVars, loopVars, alarm, localVars, coreVars,
                   trigVars, auxVars>>

\* A timer left armed runs out inside record_assessment_metrics: its except
\* clause swallows the TimeoutError and the handler returns.
StaleAlarmSwallowed ==
    /\ Expires /\ pc = "Metrics"
    /\ alarm' = 0
    /\ log' = log \cup {"Failed to record metrics"}
    /\ replies' = [replies EXCEPT !.metrics = "interrupted"]
    /\ calls' = Bump(calls, "put_metric_data")
    /\ response' = <<HandlerResponse>>
    /\ pc' = "Persisted"
    /\ UNCHANGED <<event, loadVars, loopVars, localVars, failure, stored,
                   coreVars, trigVars, auxVars>>

Next ==
    \/ ExtractParameters
    \/ ResolveDefinition
    \/ LoadBundle
    \/ AssumeRole
    \/ RoutineMissing
    \/ EnterTry
    \/ InvokeRoutine
    \/ RoutineReturns
    \/ RoutineRaises
    \/ TimePasses
    \/ DeadlineExpires
    \/ RoutineSwallowsTimeout
    \/ StaleAlarmInTry
    \/ StaleAlarmEscapes
    \/ FinishEvaluation
    \/ Score
    \/ Persist
    \/ RecordMetricsAndReturn
    \/ StaleAlarmSwallowed

Spec == Init /\ [][Next]_vars

\* The steps a check function takes of its own accord: it returns, it
\* raises, or it handles the TimeoutError raised inside it.
RoutineStep == RoutineReturns \/ RoutineRaises \/ RoutineSwallowsTimeout

\* The steps of the handler, of the collaborators that answer its calls and
\* of the timer.
HandlerStep == Next /\ ~RoutineStep

\* The run under fair scheduling: the interpreter keeps executing the
\* handler, every call to a collaborator is answered and the clock advances.
\* Nothing obliges a check function to return.
SpecLive == Spec /\ WF_vars(HandlerStep)

(***************************************************************************)
(* The core engine reference handler (reliability-assessment.js).  Its     *)
(* helpers are outside the sources: the definition it loads and the        *)
(* outcomes runAssessment yields are inputs.                               *)
(***************************************************************************)
JsBool(b) == [type |-> "boolean", bool |-> b, num |-> 0]
JsNum(n) == [type |-> "number", bool |-> FALSE, num |-> n]

\* totalScore >= challengeConfig.passingScore || 80
CorePassed(totalScore, challengeConfig) ==
    IF challengeConfig.hasPassingScore /\ totalScore >= challengeConfig.passingScore
    THEN JsBool(TRUE)
    ELSE JsNum(CoreDefaultPassed)

\* calculateTotalScore: the points of the criteria found implemented.
RECURSIVE calculateTotalScore(_, _)
calculateTotalScore(criteria, flags) ==
    IF criteria = <<>> THEN 0
    ELSE (IF flags[1] THEN criteria[1].points ELSE 0)
         + calculateTotalScore(Tail(criteria), Tail(flags))

CoreStart ==
    /\ event = [participantId |-> "p1", challengeId |-> "voting-system"]
    /\ PyInit
    /\ coreConfig = NoConfig /\ coreScore = 0 /\ corePc = "loadConfig"
    /\ coreResponse = <<>>
    /\ TrigIdle
    /\ AuxIdle

\* 1. loadChallengeConfig
CoreLoadChallengeConfig ==
    /\ corePc = "loadConfig"
    /\ \E cfg \in Definitions : coreConfig' = cfg
    /\ corePc' = "loadFunctions"
    /\ UNCHANGED <<coreScore, coreResponse, pyVars, trigVars, auxVars>>

\* 2. loadCheckFunctionsFromS3
CoreLoadCheckFunctions ==
    /\ corePc = "loadFunctions"
    /\ corePc' = "runAssessment"
    /\ UNCHANGED <<coreConfig, coreScore, coreResponse, pyVars, trigVars, auxVars>>

\* 3./4. runAssessment, calculateTotalScore
CoreRunAssessment ==
    /\ corePc = "runAssessment"
    /\ \E flags \in [1..Len(coreConfig.assessmentCriteria) -> BOOLEAN] :
         coreScore' = calculateTotalScore(coreConfig.assessmentCriteria, flags)
    /\ corePc' = "update"
    /\ UNCHANGED <<coreConfig, coreResponse, pyVars, trigVars, auxVars>>

\* 5./6. generateFeedback, updateParticipantScore, the returned object
CoreUpdateAndReturn ==
    /\ corePc = "update"
    /\ coreResponse' = <<[score |-> coreScore,
                          passed |-> CorePassed(coreScore, coreConfig)]>>
    /\ corePc' = "returned"
    /\ UNCHANGED <<coreConfig, coreScore, pyVars, trigVars, auxVars>>

\* catch (error) { console.error(...); throw error; }
CoreThrow ==
    /\ corePc \in {"loadConfig", "loadFunctions", "runAssessment", "update"}
    /\ corePc' = "failed"
    /\ UNCHANGED <<coreConfig, coreScore, coreResponse, pyVars, trigVars, auxVars>>

CoreNext ==
    \/ CoreLoadChallengeConfig
    \/ CoreLoadCheckFunctions
    \/ CoreRunAssessment
    \/ CoreUpdateAndReturn
    \/ CoreThrow

SpecCore == CoreStart /\ [][CoreNext]_vars

(***************************************************************************)
(* The assessment trigger (reliability-assessment-trigger.js).             *)
(* Participant ids and stack names are sequences of their dash-separated   *)
(* segments: "ctf-unreliable-app-team-1-dev" is                            *)
(* <<"ctf", "unreliable", "app", "team", "1", "dev">>; <<>> is an absent   *)
(* (or empty) id.                                                          *)
(***************************************************************************)
MaxItems == 3

NoId == <<>>
Subjects == {<<"alice">>, <<"bob">>, <<"team", "1">>}

StackPrefix == <<"ctf", "unreliable", "app">>

\* `ctf-unreliable-app-${participantId}-dev`
StackNameOf(participantId) == StackPrefix \o participantId \o <<"dev">>

StackNames == {StackNameOf(p) : p \in Subjects} \cup {<<"other", "stack">>}

\* event.detail?.stackId: absent, a string without '/', or a stack ARN
\* ".../NAME/uuid".
StackIds ==
    {[present |-> FALSE, hasSlash |-> FALSE, name |-> <<>>],
     [present |-> TRUE, hasSlash |-> FALSE, name |-> <<>>]}
    \cup {[present |-> TRUE, hasSlash |-> TRUE, name |-> n] : n \in StackNames}

TriggerEvents ==
    [source : {"<absent>", "aws.events", "aws.cloudformation", "manual-api"},
     detailType : {"<absent>", "Scheduled Event",
                   "CloudFormation Stack Status Change"},
     isHttp : BOOLEAN,
     stackId : StackIds,
     pathParticipantId : {NoId, <<"alice">>},
     participantId : {NoId, <<"bob">>}]

\* identifyEventSource as it would be if it took an event it does not
\* recognize for a scheduled one.
identifyEventSourceDefaultScheduled(ev) ==
    IF ev.source # "<absent>" THEN ev.source
    ELSE IF ev.detailType = "CloudFormation Stack Status Change"
    THEN "resource-change"
    ELSE IF ev.isHttp THEN "manual-api"
    ELSE "scheduled-event"

identifyEventSource(ev) ==
    IF ev.source # "<absent>" THEN ev.source
    ELSE IF ev.detailType = "Scheduled Event" THEN "scheduled-event"
    ELSE IF ev.detailType = "CloudFormation Stack Status Change"
    THEN "resource-change"
    ELSE IF ev.isHttp THEN "manual-api"
    ELSE "unknown"

\* stackName.startsWith('ctf-unreliable-app-')
startsWith(stackName) ==
    Len(stackName) > Len(StackPrefix)
    /\ SubSeq(stackName, 1, Len(StackPrefix)) = StackPrefix

\* stackName.replace('ctf-unreliable-app-', '').split('-')[0]
ParticipantOfStack(stackName) == <<stackName[Len(StackPrefix) + 1]>>

\* extractParticipantIds for the sources that need no query.
extractParticipantIds(ev, src) ==
    IF src = "resource-change"
    THEN IF ~ev.stackId.present THEN <<>>
         ELSE IF ~ev.stackId.hasSlash \/ ~startsWith(ev.stackId.name) THEN <<>>
         ELSE <<ParticipantOfStack(ev.stackId.name)>>
    ELSE IF src = "manual-api"
    THEN IF ev.pathParticipantId # NoId THEN <<ev.pathParticipantId>>
         ELSE IF ev.participantId # NoId THEN <<ev.participantId>>
         ELSE <<>>
    ELSE <<>>

InSeq(x, s) == \E i \in 1..Len(s) : s[i] = x

\* The list as it would be without the Set.
UniqueKeepingAll(list) == list

\* [...new Set(list)]: the first occurrence of each element, in order.
RECURSIVE Unique(_)
Unique(list) ==
    IF list = <<>> THEN <<>>
    ELSE LET init == Unique(SubSeq(list, 1, Len(list) - 1))
             last == list[Len(list)]
         IN  IF InSeq(last, init) THEN init ELSE Append(init, last)

ItemLists == UNION {[1..n -> Subjects] : n \in 0..MaxItems}
StackLists == UNION {[1..n -> StackNames] : n \in 0..MaxItems}

\* stacks.filter(startsWith).map(participant of the stack name)
RECURSIVE ParticipantsOfStacks(_)
ParticipantsOfStacks(stacks) ==
    IF stacks = <<>> THEN <<>>
    ELSE (IF startsWith(stacks[1]) THEN <<ParticipantOfStack(stacks[1])>>
          ELSE <<>>)
         \o ParticipantsOfStacks(Tail(stacks))

\* The Payload of lambda.invoke.
Payload(participantId, src) ==
    [participantId |-> participantId, source |-> src, timestamp |-> "now"]

Pending == [participantId |-> NoId, source |-> "<none>", status |-> "pending",
            error |-> NoError]

\* triggerAssessment as it would be if its catch clause re-threw the error.
triggerAssessmentRethrowing(participantId, src, invokeOk) ==
    [participantId |-> participantId, source |-> src,
     status |-> IF invokeOk THEN "triggered" ELSE "rejected",
     error |-> IF invokeOk THEN NoError ELSE "invoke failed"]

\* What the promise of triggerAssessment resolves to, given the outcome of
\* lambda.invoke.
triggerAssessment(participantId, src, invokeOk) ==
    [participantId |-> participantId, source |-> src,
     status |-> IF invokeOk THEN "triggered" ELSE "failed",
     error |-> IF invokeOk THEN NoError ELSE "invoke failed"]

CountStatus(rs, st) == Cardinality({i \in 1..Len(rs) : rs[i].status = st})

TrigStart ==
    /\ event = [participantId |-> "p1", challengeId |-> "voting-system"]
    /\ PyInit
    /\ CoreIdle
    /\ triggerEvent \in TriggerEvents
    /\ AuxIdle
    /\ deniedAccounts \in {{}, {<<"alice">>}}
    /\ triggerPc = "identify" /\ source = "<none>" /\ enumerated = <<>>
    /\ lookups = NoLookups
    /\ participantIds = <<>> /\ dispatch = <<>> /\ triggerResponse = <<>>
    /\ invocations = <<>> /\ engineRuns = {}

\* identifyEventSource, extractParticipantIds up to its first await.
IdentifyAndExtract ==
    /\ triggerPc = "identify"
    /\ source' = identifyEventSource(triggerEvent)
    /\ IF source' = "scheduled-event"
       THEN /\ triggerPc' = "query"
            /\ UNCHANGED participantIds
       ELSE /\ participantIds' = extractParticipantIds(triggerEvent, source')
            /\ triggerPc' = "check"
    /\ UNCHANGED <<triggerEvent, deniedAccounts, lookups, enumerated, dispatch, triggerResponse, invocations,
                   engineRuns, pyVars, coreVars, auxVars>>

\* The catch clause of getActiveParticipants as it would be if it returned
\* an empty list.
AfterQueryFailureGivingUp == "check"

\* The catch clause of getActiveParticipants: return
\* getParticipantsFromStacks().
AfterQueryFailure == "stacks"

\* getActiveParticipants: the query on the status index.
GetActiveParticipants ==
    /\ triggerPc = "query"
    /\ \E queryOk \in BOOLEAN, items \in ItemLists :
         IF queryOk
         THEN /\ participantIds' = Unique(items)
              /\ enumerated' = items
              /\ lookups' = [lookups EXCEPT !.query = "ok"]
              /\ triggerPc' = "check"
         ELSE /\ triggerPc' = AfterQueryFailure
              /\ lookups' = [lookups EXCEPT !.query = "failed"]
              /\ UNCHANGED <<participantIds, enumerated>>
    /\ UNCHANGED <<triggerEvent, deniedAccounts, source, dispatch, triggerResponse, invocations,
                   engineRuns, pyVars, coreVars, auxVars>>

\* getParticipantsFromStacks: the fallback on cloudformation.listStacks.
GetParticipantsFromStacks ==
    /\ triggerPc = "stacks"
    /\ \E listOk \in BOOLEAN, stacks \in StackLists :
         /\ participantIds' = IF listOk
                               THEN Unique(ParticipantsOfStacks(stacks))
                               ELSE <<>>
         /\ enumerated' = IF listOk THEN ParticipantsOfStacks(stacks) ELSE <<>>
         /\ lookups' = IF listOk
                        THEN [lookups EXCEPT !.listing = "ok", !.stacks = stacks]
                        ELSE [lookups EXCEPT !.listing = "failed"]
    /\ triggerPc' = "check"
    /\ UNCHANGED <<triggerEvent, deniedAccounts, source, dispatch, triggerResponse, invocations,
                   engineRuns, pyVars, coreVars, auxVars>>

\* The returned value as it would be if the results listed only the
\* invocations that were enqueued.
TriggerBodyListingTriggered(code, msg, src, rs) ==
    [statusCode |-> code, message |-> msg, source |-> src,
     results |-> SelectSeq(rs, LAMBDA r : r.status = "triggered"),
     triggered |-> CountStatus(rs, "triggered"),
     failed |-> CountStatus(rs, "failed")]

\* The value the trigger's handler returns.
TriggerBody(code, msg, src, rs) ==
    [statusCode |-> code, message |-> msg, source |-> src, results |-> rs,
     triggered |-> CountStatus(rs, "triggered"),
     failed |-> CountStatus(rs, "failed")]

\* participantIds is empty: 'No participants to assess'.
NoParticipants ==
    /\ triggerPc = "check" /\ Len(participantIds) = 0
    /\ triggerResponse' =
         <<TriggerBody(200, "No participants to assess", "<absent>", <<>>)>>
    /\ triggerPc' = "returned"
    /\ UNCHANGED <<triggerEvent, deniedAccounts, lookups, enumerated, source, participantIds, dispatch, invocations,
                   engineRuns, pyVars, coreVars, auxVars>>

\* participantIds.map(triggerAssessment): every call runs up to its await of
\* lambda.invoke, in list order.
StartInvocations ==
    /\ triggerPc = "check" /\ Len(participantIds) > 0
    /\ invocations' = [i \in 1..Len(participantIds) |->
                          Payload(participantIds[i], source)]
    /\ dispatch' = [i \in 1..Len(participantIds) |-> Pending]
    /\ triggerPc' = "invoking"
    /\ UNCHANGED <<triggerEvent, deniedAccounts, lookups, enumerated, source, participantIds, triggerResponse,
                   engineRuns, pyVars, coreVars, auxVars>>

\* lambda.invoke of the i-th call settles: enqueued (asynchronous 'Event'
\* invocation) or failed.
InvokeSettles(i) ==
    /\ triggerPc = "invoking" /\ dispatch[i].status = "pending"
    /\ \E invokeOk \in BOOLEAN :
         dispatch' = [dispatch EXCEPT ![i] =
                         triggerAssessment(participantIds[i], source, invokeOk)]
    /\ UNCHANGED <<triggerEvent, deniedAccounts, lookups, enumerated, triggerPc, source, participantIds,
                   triggerResponse, invocations, engineRuns, pyVars, coreVars, auxVars>>

\* The await as it would be if the handler also waited for the assessment
\* each enqueued invocation starts.
SummaryReadyAfterRuns(rs) ==
    \A i \in 1..Len(rs) :
        /\ rs[i].status # "pending"
        /\ rs[i].status = "triggered" => \E r \in engineRuns : r.index = i

\* await Promise.all(...): every promise of triggerAssessment has settled,
\* which for an asynchronous invocation is when lambda.invoke has answered.
SummaryReady(rs) ==
    \A i \in 1..Len(rs) : rs[i].status # "pending"

\* Promise.all has every result: the summary (or, had a promise rejected,
\* the catch clause's 500).
ReturnSummary ==
    /\ triggerPc = "invoking"
    /\ SummaryReady(dispatch)
    /\ triggerResponse' =
         IF \E i \in 1..Len(dispatch) : dispatch[i].status = "rejected"
         THEN <<TriggerBody(500, "error", "<absent>", <<>>)>>
         ELSE <<TriggerBody(200, "Triggered assessments", source, dispatch)>>
    /\ triggerPc' = "returned"
    /\ UNCHANGED <<triggerEvent, deniedAccounts, lookups, enumerated, source, participantIds, dispatch, invocations,
                   engineRuns, pyVars, coreVars, auxVars>>

\* json.loads of the payload on the engine's side: event.get(key) is None for
\* a key the payload lacks.
EngineEvent(payload) ==
    [participantId |-> IF payload.participantId = NoId THEN "None" ELSE "given",
     challengeId |-> IF "challengeId" \in DOMAIN payload THEN "given" ELSE "None"]

EngineStarted(i) == \E r \in engineRuns : r.index = i

\* The assessment engine is started with the payload of an enqueued
\* invocation: lambda_handler's parameter extraction.
EngineReceives(i) ==
    /\ dispatch[i].status = "triggered" /\ ~EngineStarted(i)
    /\ LET ev == EngineEvent(invocations[i])
       IN  engineRuns' = engineRuns \cup
             {[index |-> i, participantId |-> invocations[i].participantId,
               event |-> ev,
               phase |-> IF MissingParameters(ev) THEN "Failed" ELSE "Resolving",
               error |-> IF MissingParameters(ev)
                         THEN "Missing required parameters" ELSE NoError]}
    /\ UNCHANGED <<triggerEvent, deniedAccounts, lookups, enumerated, triggerPc, source, participantIds, dispatch,
                   triggerResponse, invocations, pyVars, coreVars, auxVars>>

TrigNext ==
    \/ IdentifyAndExtract
    \/ GetActiveParticipants
    \/ GetParticipantsFromStacks
    \/ NoParticipants
    \/ StartInvocations
    \/ \E i \in 1..Len(dispatch) : InvokeSettles(i)
    \/ ReturnSummary
    \/ \E i \in 1..Len(dispatch) : EngineReceives(i)

SpecTrigger == TrigStart /\ [][TrigNext]_vars

(***************************************************************************)
(* The engine's processes.  A Lambda container handles one invocation at a *)
(* time and keeps its interpreter, and with it sys.modules, from one       *)
(* invocation to the next; invocations that overlap in time run in         *)
(* different containers.  Each run is followed through the three steps     *)
(* that create or use what the run owns: the module load, the role         *)
(* assumption and the check function calls.                                *)
(***************************************************************************)
AuxStart ==
    /\ event = [participantId |-> "p1", challengeId |-> "voting-system"]
    /\ PyInit
    /\ CoreIdle
    /\ TrigIdle
    /\ AuxIdle

\* time.time() advances.
Tick ==
    /\ clock < MaxClock
    /\ clock' = clock + 1
    /\ UNCHANGED <<runNo, runPc, loadedUnit, runCredentials, stsCount, issued,
                   sysModules, loads, routineCalls, pyVars, coreVars, trigVars, jsVars>>

\* The container receives its next invocation: lambda_handler starts with
\* its locals unbound.
BeginRun(p) ==
    /\ runPc[p] \in {"idle", "returned", "failed"} /\ runNo[p] < MaxRuns
    /\ runNo' = [runNo EXCEPT ![p] = @ + 1]
    /\ runPc' = [runPc EXCEPT ![p] = "loading"]
    /\ loadedUnit' = [loadedUnit EXCEPT ![p] = NoRef]
    /\ runCredentials' = [runCredentials EXCEPT ![p] = NoRef]
    /\ stsCount' = [stsCount EXCEPT ![p] = 0]
    /\ UNCHANGED <<clock, issued, sysModules, loads, routineCalls, pyVars,
                   coreVars, trigVars, jsVars>>

\* load_check_functions_from_s3: the module is named after the clock, put in
\* sys.modules under that name, executed and returned.
LoadUnit(p) ==
    /\ runPc[p] = "loading"
    /\ \E fetch \in {"ok", "client-error", "bad-code"} :
         LET name == module_name(clock)
             unit == <<p, runNo[p]>>
         IN  /\ IF fetch = "client-error"
                THEN UNCHANGED <<sysModules, loads>>
                ELSE /\ sysModules' = [sysModules EXCEPT ![p][name] = unit]
                     /\ loads' = loads \cup {[proc |-> p, run |-> runNo[p],
                                             name |-> name]}
             /\ IF load_check_functions_from_s3(fetch) # NoError
                THEN /\ runPc' = [runPc EXCEPT ![p] = "failed"]
                     /\ UNCHANGED loadedUnit
                ELSE /\ runPc' = [runPc EXCEPT ![p] = "authorizing"]
                     /\ loadedUnit' = [loadedUnit EXCEPT ![p] = unit]
    /\ UNCHANGED <<clock, runNo, runCredentials, stsCount, issued, routineCalls,
                   pyVars, coreVars, trigVars, jsVars>>

\* assumed_credentials as it would be if the process kept the credentials of
\* an earlier run and reused them.
AssumedCredentialsCached(fresh, earlier) ==
    IF earlier # NoRef THEN earlier ELSE fresh

\* assumed_credentials = assume_assessment_role(...): the credentials of
\* the response of this run's assume_role call.
AssumedCredentials(fresh, earlier) == fresh

\* assume_assessment_role: one assume_role call per run.
Authorize(p) ==
    /\ runPc[p] = "authorizing"
    /\ stsCount' = [stsCount EXCEPT ![p] = @ + 1]
    /\ \E stsOk \in BOOLEAN :
         IF assume_assessment_role(stsOk) # NoError
         THEN /\ runPc' = [runPc EXCEPT ![p] = "failed"]
              /\ UNCHANGED <<runCredentials, issued>>
         ELSE /\ runPc' = [runPc EXCEPT ![p] = "evaluating"]
              /\ issued' = [issued EXCEPT ![p] = <<p, runNo[p]>>]
              /\ runCredentials' = [runCredentials EXCEPT ![p] =
                                       AssumedCredentials(<<p, runNo[p]>>, issued[p])]
    /\ UNCHANGED <<clock, runNo, loadedUnit, sysModules, loads, routineCalls,
                   pyVars, coreVars, trigVars, jsVars>>

\* run_assessment: getattr(check_functions, name) called with credentials.
CallRoutine(p) ==
    /\ runPc[p] = "evaluating"
    /\ routineCalls' = routineCalls \cup
         {[proc |-> p, run |-> runNo[p], unit |-> loadedUnit[p],
           credentials |-> runCredentials[p], authorized |-> stsCount[p]]}
    /\ UNCHANGED <<clock, runNo, runPc, loadedUnit, runCredentials, stsCount,
                   issued, sysModules, loads, pyVars, coreVars, trigVars, jsVars>>

\* lambda_handler returns.
EndRun(p) ==
    /\ runPc[p] = "evaluating"
    /\ runPc' = [runPc EXCEPT ![p] = "returned"]
    /\ UNCHANGED <<clock, runNo, loadedUnit, runCredentials, stsCount, issued,
                   sysModules, loads, routineCalls, pyVars, coreVars, trigVars, jsVars>>

ProcNext ==
    \/ Tick
    \/ \E p \in Procs : BeginRun(p)
    \/ \E p \in Procs : LoadUnit(p)
    \/ \E p \in Procs : Authorize(p)
    \/ \E p \in Procs : CallRoutine(p)
    \/ \E p \in Procs : EndRun(p)

SpecProcess == AuxStart /\ [][ProcNext]_vars

(***************************************************************************)
(* The simplified assessment engine (assessment-engine.js), the stack and  *)
(* code analyzers it ships with, and the comprehensive test that deploys   *)
(* five stages of the test application and asks the engine for a score     *)
(* after each.                                                             *)
(***************************************************************************)
\* Math.round as it would be if the number were returned as computed.
MathRoundKeepingFraction(h) == h

\* Math.round: the nearest whole number, a half rounded up.
MathRound(h) == ((h + 50) \div 100) * 100

\* checkMultiRegionSetup: 100 when some resource has Properties.Region.
checkMultiRegionSetup(t) == IF t.hasRegion THEN 10000 ELSE 0

\* checkBackupConfigurations: 100 when some DynamoDB table has
\* PointInTimeRecoveryEnabled === true.
checkBackupConfigurations(t) == IF t.pitr THEN 10000 ELSE 0

\* analyzeStack: the analysis of the template, or {stackName, error} when
\* getTemplate or JSON.parse throws.
analyzeStack(found, message, t) ==
    IF found
    THEN [hasAnalysis |-> TRUE, error |-> "",
          multiRegion |-> checkMultiRegionSetup(t),
          backups |-> checkBackupConfigurations(t)]
    ELSE [NoAnalysis EXCEPT !.error = message]

\* error.message of what getTemplate or JSON.parse throws: a text, or nothing
\* (the request library sets message to null when the service's error
\* response carries no error code).
ErrorMessages == {"", "Stack does not exist"}

\* if (stackAnalysis.error): a JavaScript string is true unless it is empty;
\* null and undefined are false like the empty string.
NonEmptyText(text) == text # ""

\* stackAnalysis.analysis.multiRegion on a record without the analysis
\* property and without a true error: a TypeError.
calculateScoreThrows(analysis) ==
    ~NonEmptyText(analysis.error) /\ ~analysis.hasAnalysis

\* calculateScore: 0 when the record's error is true, else the rounded
\* average (no value where calculateScoreThrows holds).
calculateScore(analysis) ==
    IF NonEmptyText(analysis.error) THEN 0
    ELSE MathRound((analysis.multiRegion + analysis.backups) \div 2)

\* checkErrorHandling, checkRetryLogic, checkCircuitBreaker, checkIdempotency,
\* checkAsyncProcessing: the score of each, from what the code string includes.
checkPatterns(f) ==
    [errorHandling |-> (IF f.tryCatch THEN 4000 ELSE 0)
                       + (IF f.errorLogging THEN 3000 ELSE 0)
                       + (IF f.errorResponse THEN 3000 ELSE 0),
     retryLogic |-> (IF f.retry THEN 6000 ELSE 0) + (IF f.backoff THEN 4000 ELSE 0),
     circuitBreaker |-> IF f.circuitBreaker THEN 10000 ELSE 0,
     idempotency |-> (IF f.idempotencyToken THEN 5000 ELSE 0)
                     + (IF f.conditionalWrite THEN 5000 ELSE 0),
     asyncProcessing |-> (IF f.sqs THEN 4000 ELSE 0) + (IF f.sns THEN 3000 ELSE 0)
                         + (IF f.eventBridge THEN 3000 ELSE 0)]

CodeFlags == [tryCatch : BOOLEAN, errorLogging : BOOLEAN, errorResponse : BOOLEAN,
              retry : BOOLEAN, backoff : BOOLEAN, circuitBreaker : BOOLEAN,
              idempotencyToken : BOOLEAN, conditionalWrite : BOOLEAN,
              sqs : BOOLEAN, sns : BOOLEAN, eventBridge : BOOLEAN]

\* calculateCodeScore: the weighted sum (weights 0.3, 0.25, 0.15, 0.15, 0.15),
\* rounded.  The weights are not exact binary fractions: ulp is the
\* representation error of the sum, in hundredths.
calculateCodeScore(ps, ulp) ==
    LET total == (ps.errorHandling * 30 + ps.retryLogic * 25
                  + ps.circuitBreaker * 15 + ps.idempotency * 15
                  + ps.asyncProcessing * 15) \div 100
    IN  MathRound(IF total = 0 THEN 0 ELSE total + ulp)

\* The stages of runComprehensiveTest.
Stages == <<"initial", "point-in-time-recovery", "error-handling",
            "cloudwatch-alarms", "health-check">>

\* What a stage's deployment leaves in the stack.  The initial application
\* and the modifications of the last two stages are outside the sources:
\* their templates are arbitrary.
DeployedTemplates(n, t) ==
    IF Stages[n] = "point-in-time-recovery" THEN {[t EXCEPT !.pitr = TRUE]}
    ELSE IF Stages[n] = "error-handling" THEN {t}
    ELSE [hasRegion : BOOLEAN, pitr : BOOLEAN]

\* runComprehensiveTest: deploy the next stage, then invoke the engine.
DeployStage ==
    /\ enginePc \in {"idle", "returned"} /\ stage < Len(Stages)
    /\ stage' = stage + 1
    /\ template' \in DeployedTemplates(stage + 1, template)
    /\ enginePc' = "invoked"
    /\ UNCHANGED <<stackAnalysis, testResults, patterns, codeScore, assessments, procVars,
                   pyVars, coreVars, trigVars>>

\* exports.handler, step 1: stackAnalyzer.analyzeStack(stackName).
EngineAnalyzeStack ==
    /\ enginePc = "invoked"
    /\ \E found \in BOOLEAN, message \in ErrorMessages :
         stackAnalysis' = analyzeStack(found, message, template)
    /\ enginePc' = "analyzed"
    /\ UNCHANGED <<stage, template, testResults, patterns, codeScore, assessments, procVars,
                   pyVars, coreVars, trigVars>>

\* const passed = reliabilityScore >= 80
EnginePassed(reliabilityScore) == reliabilityScore >= 8000

\* The await of updateReliabilityScore as it would be inside a try/catch
\* that only logs.
AfterUpdateIgnoringError(updateOk) == "continue"

\* await updateReliabilityScore(...): a rejected promise throws to the
\* handler's catch clause, which re-throws.
AfterUpdate(updateOk) == IF updateOk THEN "continue" ELSE "throw"

\* The run the engine is in, and what runAssessment of the test notes when
\* the invocation ends in an error: a result without a score.
CurrentRun == assessments[Len(assessments)]

NoScore == [stage |-> Stages[stage], hasScore |-> FALSE, score |-> 0,
            passed |-> FALSE]

\* exports.handler, steps 2 and 3: calculateScore, updateReliabilityScore.
\* A TypeError in calculateScore goes to the handler's catch clause before
\* the update is called.
EngineUpdateScore ==
    /\ enginePc = "analyzed"
    /\ IF calculateScoreThrows(stackAnalysis)
       THEN /\ assessments' = Append(assessments,
                   [stage |-> stage, analysisError |-> TRUE, scored |-> FALSE,
                    score |-> 0, updated |-> FALSE, flagged |-> FALSE,
                    returned |-> FALSE])
            /\ enginePc' = "returned"
            /\ testResults' = Append(testResults, NoScore)
       ELSE \E updateOk \in BOOLEAN :
            /\ assessments' = Append(assessments,
                   [stage |-> stage,
                    analysisError |-> ~stackAnalysis.hasAnalysis,
                    scored |-> TRUE,
                    score |-> calculateScore(stackAnalysis),
                    updated |-> updateOk, flagged |-> FALSE,
                    returned |-> FALSE])
            /\ IF AfterUpdate(updateOk) = "continue"
               THEN /\ enginePc' = "updated"
                    /\ UNCHANGED testResults
               ELSE /\ enginePc' = "returned"
                    /\ testResults' = Append(testResults, NoScore)
    /\ UNCHANGED <<stage, template, stackAnalysis, patterns, codeScore, procVars,
                   pyVars, coreVars, trigVars>>

\* exports.handler, step 4: if (passed) await revealFlag(participantId).
EngineRevealFlag ==
    /\ enginePc = "updated" /\ EnginePassed(CurrentRun.score)
    /\ \E flagOk \in BOOLEAN :
         /\ assessments' = [assessments EXCEPT ![Len(assessments)].flagged = flagOk]
         /\ IF flagOk
            THEN /\ enginePc' = "flagged"
                 /\ UNCHANGED testResults
            ELSE /\ enginePc' = "returned"
                 /\ testResults' = Append(testResults, NoScore)
    /\ UNCHANGED <<stage, template, stackAnalysis, patterns, codeScore, procVars,
                   pyVars, coreVars, trigVars>>

\* exports.handler, the return; the test notes the score.
EngineReturns ==
    /\ \/ enginePc = "flagged"
       \/ enginePc = "updated" /\ ~EnginePassed(CurrentRun.score)
    /\ assessments' = [assessments EXCEPT ![Len(assessments)].returned = TRUE]
    /\ testResults' = Append(testResults,
                             [stage |-> Stages[stage], hasScore |-> TRUE,
                              score |-> CurrentRun.score,
                              passed |-> EnginePassed(CurrentRun.score)])
    /\ enginePc' = "returned"
    /\ UNCHANGED <<stage, template, stackAnalysis, patterns, codeScore, procVars,
                   pyVars, coreVars, trigVars>>

\* analyzeCode: the pattern checks on the function's code and the score; a
\* failure to fetch the code gives score 0.
AnalyzeCode ==
    /\ enginePc = "idle"
    /\ \E codeOk \in BOOLEAN, f \in CodeFlags, ulp \in {-1, 0, 1} :
         IF codeOk
         THEN /\ patterns' = checkPatterns(f)
              /\ codeScore' = calculateCodeScore(checkPatterns(f), ulp)
         ELSE /\ patterns' = NoPatterns
              /\ codeScore' = 0
    /\ enginePc' = "codeAnalyzed"
    /\ UNCHANGED <<stage, template, stackAnalysis, testResults, assessments, procVars, pyVars,
                   coreVars, trigVars>>

EngineNext ==
    \/ DeployStage
    \/ EngineAnalyzeStack
    \/ EngineUpdateScore
    \/ EngineRevealFlag
    \/ EngineReturns
    \/ AnalyzeCode

SpecEngine == AuxStart /\ [][EngineNext]_vars

(***************************************************************************)
(* Properties.                                                             *)
(***************************************************************************)
Completed == response # <<>>

\* Sum of the point values of the criteria whose outcome says implemented = True.
RECURSIVE PointsOfImplemented(_, _, _)
PointsOfImplemented(cs, rs, i) ==
    IF i = 0 THEN 0
    ELSE (IF i <= Len(rs) /\ rs[i].implemented = "True" THEN cs[i].points ELSE 0)
         + PointsOfImplemented(cs, rs, i - 1)

RECURSIVE PointsOfAll(_, _)
PointsOfAll(cs, i) == IF i = 0 THEN 0 ELSE cs[i].points + PointsOfAll(cs, i - 1)

\* C1: in every result a completed run returns, score is the sum of the point
\* values of exactly the criteria whose outcome has implemented == true,
\* maxScore is the sum of all point values, score <= maxScore, and an outcome
\* whose implemented is not true contributes 0 points.
C1_ScoreSumsImplemented ==
    Completed =>
        LET r == response[1] IN
        /\ r.score = PointsOfImplemented(Criteria, r.results, NCriteria)
        /\ r.maxScore = PointsOfAll(Criteria, NCriteria)
        /\ r.score <= r.maxScore
        /\ \A i \in 1..Len(r.results) :
             r.results[i].implemented # "True" => r.results[i].points = 0

\* C2: the outcome list of a completed run has exactly one entry per
\* criterion of the definition, the i-th entry being the outcome of the i-th
\* criterion, whatever happened to the routines.
C2_OutcomesMirrorCriteria ==
    /\ Completed =>
         /\ Len(response[1].results) = NCriteria
         /\ \A i \in 1..NCriteria :
              /\ i <= Len(response[1].results)
              /\ response[1].results[i].criterionId = Criteria[i].id
              /\ response[1].results[i].maxPoints = Criteria[i].points
    /\ pc \in {"Scoring", "Persisting", "Metrics"} => Len(results) = NCriteria

\* A completed run of two criteria where the first routine overran its
\* deadline and the second is absent from the bundle.
C2_Witness ==
    /\ Completed /\ NCriteria = 2
    /\ trace[1].kind = "timeout" /\ trace[2].kind = "missing"

\* C3: a routine that throws gets an implemented=false outcome with the error
\* message, every later criterion is still evaluated, and the run does not
\* end in Failed because of it.
C3_ThrowAbsorbed ==
    \A i \in 1..Len(trace) :
        trace[i].kind = "raised" =>
            /\ results[i].implemented = "False"
            /\ results[i].error = MsgRoutine
            /\ \A j \in (i + 1)..Len(trace) : trace[j].kind # "stale-timeout"
            /\ ~(pc = "Failed" /\ failure[1].error = MsgTimeout)

\* C4: a routine whose deadline elapses before it returns yields, for its own
\* criterion, an implemented=false outcome with a timeout error, and the run
\* goes on to the next criterion instead of failing.
C4_TimeoutYieldsOutcome ==
    /\ \A i \in 1..Len(trace) :
         trace[i].late =>
             /\ results[i].implemented = "False"
             /\ results[i].error = MsgTimeout
             /\ results[i].points = 0
    /\ late => pc = "Evaluating"

\* Two criteria worth 10 points each, pass threshold 15.
ScenarioDefinition(cfg) ==
    /\ Len(cfg.assessmentCriteria) = 2
    /\ cfg.assessmentCriteria[1].points = 10
    /\ cfg.assessmentCriteria[2].points = 10
    /\ cfg.hasPassingScore /\ cfg.passingScore = 15

\* C5: passed is true exactly when the score reaches the definition's pass
\* threshold, false otherwise; criteria worth 10 and 10, threshold 15, only the
\* first implemented: score 10, maxScore 20, passed false.
C5_PassedIffThreshold ==
    /\ (Completed /\ config.hasPassingScore) =>
         response[1].passed = (response[1].score >= config.passingScore)
    /\ (/\ Completed /\ ScenarioDefinition(config)
        /\ trace[1].kind = "returned" /\ trace[1].value.implemented = "True"
        /\ trace[2].kind = "returned" /\ trace[2].value.implemented = "False")
         => /\ response[1].score = 10 /\ response[1].maxScore = 20
            /\ response[1].passed = FALSE
    /\ (coreResponse # <<>> /\ coreConfig.hasPassingScore) =>
         coreResponse[1].passed =
             JsBool(coreResponse[1].score >= coreConfig.passingScore)
    /\ (/\ coreResponse # <<>> /\ ScenarioDefinition(coreConfig)
        /\ coreResponse[1].score = 10)
         => coreResponse[1].passed = JsBool(FALSE)

\* C6: a run that fails resolving the definition, loading the bundle or
\* acquiring credentials ends in Failed with no routine invoked and no write
\* to the results store; a completed run has written exactly once.
C6_FatalFailureNoSideEffects ==
    /\ (pc = "Failed" /\ failure[1].phase \in {"Resolving", "Loading", "Authorizing"})
         => /\ invoked = {} /\ trace = <<>>
            /\ calls.put_item = 0 /\ stored = <<>> /\ response = <<>>
    /\ (\/ replies.registry \in {"error", "missing", "'false'", "False"}
        \/ replies.s3 \in {"client-error", "bad-code"}
        \/ replies.sts = "client-error")
         => /\ pc = "Failed"
            /\ invoked = {} /\ trace = <<>>
            /\ calls.put_item = 0 /\ stored = <<>> /\ response = <<>>
    /\ Completed => calls.put_item = 1 /\ Len(stored) = 1

\* The bundle fetch failed and the run is over.
C6_Witness ==
    /\ pc = "Failed" /\ replies.s3 = "client-error"
    /\ failure[1].phase = "Loading"

\* C7: when the write to the results store fails after scoring, the run still
\* returns the result; it does not end in Failed.
C7_StoreFailureStillReturns ==
    replies.put = "client-error" => pc # "Failed"

\* The value has no boolean 'implemented' field.
Malformed(v) == ~v.isDict \/ ~v.hasImplemented \/ v.implemented \notin {"True", "False"}

\* C8: a value returned before the deadline that lacks the implemented field,
\* or carries a non-boolean one, gives an implemented=false outcome with an
\* error and 0 points.
C8_MalformedReturnRejected ==
    \A i \in 1..Len(trace) :
        (trace[i].kind = "returned" /\ ~trace[i].late /\ Malformed(trace[i].value))
            => /\ results[i].implemented = "False"
               /\ results[i].error # NoError
               /\ results[i].points = 0

\* C9: a criterion whose routine-name is absent from the loaded bundle gets
\* an implemented=false, 0-point, routine-not-found outcome, and neither the
\* sandbox nor a routine is entered for it.
C9_MissingRoutineNotInvoked ==
    \A i \in 1..NCriteria :
        Criteria[i].checkFunction \notin module =>
            /\ i \notin invoked
            /\ (InLoop /\ idx = i) => sub = "lookup"
            /\ i <= Len(results) =>
                 /\ results[i].implemented = "False"
                 /\ results[i].points = 0
                 /\ results[i].error = MsgNotFound
                 /\ trace[i].kind = "missing"

\* A completed run whose second criterion names a routine the bundle lacks,
\* after a first criterion whose routine ran.
C9_Witness ==
    /\ Completed /\ NCriteria = 2
    /\ Criteria[2].checkFunction \notin module
    /\ 1 \in invoked
    /\ results[2].error = MsgNotFound

\* C10: a definition id without a record in the definition store makes the
\* run fail with "not found", before any bundle load, credential request or
\* routine invocation.
C10_UnknownDefinitionFails ==
    /\ replies.registry = "missing" =>
         /\ pc = "Failed"
         /\ failure[1].error = "Challenge not found"
         /\ failure[1].phase = "Resolving"
    /\ (event.challengeId \notin RegisteredIds /\ pc \notin {"Start", "Resolving"})
         => /\ pc = "Failed"
            /\ calls.get_object = 0 /\ calls.assume_role = 0
            /\ module = {} /\ credentials = "none" /\ invoked = {}

\* The store answered that the id has no record.
C10_Witness ==
    /\ event.challengeId = "unknown" /\ replies.registry = "missing"
    /\ pc = "Failed" /\ calls.get_item = 1

\* The record's 'active' attribute marks the definition active: the string
\* the registration tool writes, or the boolean of the registry's records.
MarkedActive(a) == a \in {"'true'", "True"}

\* C11: the resolver returns the definition when its record exists and is
\* marked active, and fails with "not active" exactly when the record exists
\* and is deactivated.
C11_ResolverActiveOrInactive ==
    /\ MarkedActive(replies.registry) =>
         /\ pc # "Failed" \/ failure[1].phase # "Resolving"
         /\ pc \notin {"Start", "Resolving"} => config \in Definitions
    /\ replies.registry \in {"'false'", "False"} =>
         /\ pc = "Failed"
         /\ failure[1].error = "Challenge is not active"
    /\ (pc = "Failed" /\ failure[1].error = "Challenge is not active") =>
         replies.registry \in {"'false'", "False"}

\* C12: within one dispatch cycle no participant is invoked twice, and no
\* second engine run is started for it; a scheduled enumeration returning
\* [alice, bob, alice] dispatches exactly two work items, alice and bob.
C12_DispatchDeduplicated ==
    /\ \A i, j \in 1..Len(invocations) :
         i # j => invocations[i].participantId # invocations[j].participantId
    /\ \A r1, r2 \in engineRuns :
         r1.participantId = r2.participantId => r1 = r2
    /\ (enumerated = <<<<"alice">>, <<"bob">>, <<"alice">>>>
        /\ triggerPc \in {"invoking", "returned"})
         => /\ Len(invocations) = 2
            /\ invocations[1].participantId = <<"alice">>
            /\ invocations[2].participantId = <<"bob">>
    /\ (enumerated = <<<<"alice">>, <<"bob">>, <<"alice">>>>
        /\ triggerPc = "returned")
         => Len(triggerResponse[1].results) = 2

\* The enumeration [alice, bob, alice] was dispatched and the handler returned.
C12_Witness ==
    /\ enumerated = <<<<"alice">>, <<"bob">>, <<"alice">>>>
    /\ triggerPc = "returned"
    /\ Len(invocations) = 2 /\ Cardinality(engineRuns) = 2

\* C13: when lambda.invoke fails for one work item, that item's record is
\* status failed with the error, every other item of the cycle is still
\* invoked, and the handler returns its summary with the failure counted
\* instead of raising.
C13_EnqueueFailureIsolated ==
    /\ triggerPc \in {"invoking", "returned"} =>
         /\ Len(invocations) = Len(participantIds)
         /\ Len(dispatch) = Len(participantIds)
         /\ \A i \in 1..Len(participantIds) :
              /\ invocations[i].participantId = participantIds[i]
              /\ dispatch[i].status \in {"pending", "triggered", "failed"}
              /\ dispatch[i].status = "failed" =>
                   /\ dispatch[i].participantId = participantIds[i]
                   /\ dispatch[i].error # NoError
    /\ (triggerPc = "returned" /\ Len(participantIds) > 0) =>
         /\ triggerResponse[1].statusCode = 200
         /\ triggerResponse[1].results = dispatch
         /\ triggerResponse[1].failed = CountStatus(dispatch, "failed")
         /\ triggerResponse[1].triggered + triggerResponse[1].failed
              = Len(participantIds)

\* The first of two work items failed to enqueue, the second was enqueued and
\* its engine run started; the summary counts one of each.
C13_Witness ==
    /\ triggerPc = "returned" /\ Len(participantIds) = 2
    /\ dispatch[1].status = "failed" /\ dispatch[2].status = "triggered"
    /\ triggerResponse[1].failed = 1 /\ triggerResponse[1].triggered = 1
    /\ EngineStarted(2)

\* The scheduled event of the events service.
IsScheduledEvent(ev) ==
    ev.detailType = "Scheduled Event" /\ ev.source \in {"<absent>", "aws.events"}

SetOf(list) == {list[i] : i \in 1..Len(list)}

\* C14: a scheduled event (detail-type 'Scheduled Event', source
\* 'aws.events') is identified as scheduled, the active participants are
\* enumerated and one assessment is triggered per participant; with every
\* invoke succeeding the response reports as many triggered assessments as
\* there are active participants.
C14_ScheduledEventTriggersAll ==
    IsScheduledEvent(triggerEvent) =>
        /\ triggerPc # "identify" => source = "scheduled-event"
        /\ triggerPc \in {"invoking", "returned"} =>
             SetOf(participantIds) = SetOf(enumerated)
        /\ (triggerPc = "returned" /\ Len(participantIds) > 0
            /\ CountStatus(dispatch, "failed") = 0) =>
             /\ triggerResponse[1].message = "Triggered assessments"
             /\ triggerResponse[1].triggered = Cardinality(SetOf(enumerated))

\* The payload carries a subject id and a definition id.
CarriesBothIds(payload) ==
    /\ payload.participantId # NoId
    /\ "challengeId" \in DOMAIN payload

\* C15: every work item handed to the assessment engine carries a subject id
\* and a definition id, so that the run it starts passes the engine's
\* parameter check and can resolve a definition.
C15_WorkItemCarriesDefinitionId ==
    /\ \A i \in 1..Len(invocations) : CarriesBothIds(invocations[i])
    /\ \A r \in engineRuns :
         ~(r.phase = "Failed" /\ r.error = "Missing required parameters")

\* The stack-status-change event of the CloudFormation service.
IsResourceChangeEvent(ev) ==
    /\ ev.detailType = "CloudFormation Stack Status Change"
    /\ ev.source \in {"<absent>", "aws.cloudformation"}

\* The participant whose stack carries the name: the inverse of StackNameOf.
StackOwner(stackName) ==
    SubSeq(stackName, Len(StackPrefix) + 1, Len(stackName) - 1)

HasPrefixedName(ev) ==
    /\ ev.stackId.present /\ ev.stackId.hasSlash
    /\ \E p \in Subjects : ev.stackId.name = StackNameOf(p)

\* C16: a resource-change event yields one work item, for the participant the
\* stack name belongs to, when the name starts with the expected prefix; it
\* yields no work item and no error when the name is missing or does not
\* match.
C16_ResourceChangeYieldsOwner ==
    (IsResourceChangeEvent(triggerEvent) /\ triggerPc # "identify") =>
        IF HasPrefixedName(triggerEvent)
        THEN participantIds = <<StackOwner(triggerEvent.stackId.name)>>
        ELSE /\ participantIds = <<>> /\ invocations = <<>>
             /\ triggerPc = "returned" => triggerResponse[1].statusCode = 200

\* A call through the API endpoint with the participant id in the path.
IsApiCall(ev) ==
    /\ ev.isHttp /\ ev.source = "<absent>" /\ ev.detailType = "<absent>"
    /\ ev.pathParticipantId # NoId

\* A direct invocation of the trigger with a participantId field.
IsDirectInvocation(ev) ==
    /\ ~ev.isHttp /\ ev.source \in {"<absent>", "manual-api"}
    /\ ev.detailType = "<absent>"
    /\ ev.pathParticipantId = NoId /\ ev.participantId # NoId

\* C17: a manual trigger that supplies a participant id, as a path parameter
\* or as the participantId field of a direct invocation, yields exactly one
\* work item, for that participant.
C17_ManualTriggerYieldsOne ==
    /\ (IsApiCall(triggerEvent) /\ triggerPc # "identify") =>
         /\ participantIds = <<triggerEvent.pathParticipantId>>
         /\ triggerPc = "returned" => Len(invocations) = 1
    /\ (IsDirectInvocation(triggerEvent) /\ triggerPc # "identify") =>
         /\ participantIds = <<triggerEvent.participantId>>
         /\ triggerPc = "returned" => Len(invocations) = 1

\* An event of none of the three shapes: no detail-type, no HTTP method and
\* path, no participant id, and no source naming the manual trigger.
Unrecognized(ev) ==
    /\ ev.detailType = "<absent>" /\ ~ev.isHttp /\ ev.source # "manual-api"
    /\ ev.pathParticipantId = NoId /\ ev.participantId = NoId

\* C18: an event of unrecognized shape yields no work item and no engine
\* invocation, and the handler returns a non-error summary.
C18_UnrecognizedEventSkipped ==
    (Unrecognized(triggerEvent) /\ triggerPc # "identify") =>
        /\ participantIds = <<>> /\ invocations = <<>> /\ engineRuns = {}
        /\ triggerPc \in {"check", "returned"}
        /\ triggerPc = "returned" =>
             /\ triggerResponse[1].statusCode = 200
             /\ triggerResponse[1].triggered = 0
             /\ triggerResponse[1].failed = 0

\* An event carrying only an unknown source value was answered.
C18_Witness ==
    /\ Unrecognized(triggerEvent) /\ triggerEvent.source = "aws.events"
    /\ triggerPc = "returned"
    /\ triggerResponse[1].message = "No participants to assess"

C20_MetricsFailureHarmless ==
    /\ replies.metrics \in {"error", "interrupted"} =>
         /\ pc = "Persisted" /\ failure = <<>>
         /\ response = <<HandlerResponse>>
    /\ Completed =>
         /\ response[1].score = calculate_score(results)
         /\ response[1].passed = ComputePassed(calculate_score(results), config)
         /\ response[1].results = results
         /\ Len(stored) = 1 /\ stored[1].score = response[1].score

\* A run that scored points returned them although the sink was unavailable.
C20_Witness ==
    /\ Completed /\ replies.metrics = "error"
    /\ response[1].score > 0 /\ "Failed to record metrics" \in log

\* Position of a phase in the order of a run.  The parameter check comes
\* before Resolving; Persisting and Metrics lie between Scoring and Persisted.
PhaseRank(p) ==
    CASE p = "Start" -> 0
      [] p = "Resolving" -> 1
      [] p = "Loading" -> 2
      [] p = "Authorizing" -> 3
      [] p = "Evaluating" -> 4
      [] p = "Scoring" -> 5
      [] p = "Persisting" -> 6
      [] p = "Metrics" -> 7
      [] p = "Persisted" -> 8
      [] OTHER -> 9

\* C24: a run passes through Resolving, Loading, Authorizing, Evaluating,
\* Scoring, Persisted in that order without skipping or revisiting a phase;
\* Failed is terminal and entered only from Resolving, Loading or Authorizing
\* (the parameter check counted with Resolving).
C24_PhaseOrder ==
    [][pc' # pc =>
         \/ pc # "Failed" /\ pc' # "Failed" /\ PhaseRank(pc') = PhaseRank(pc) + 1
         \/ pc' = "Failed" /\ pc \in {"Start", "Resolving", "Loading", "Authorizing"}]_vars

\* C26: the external id is presented only in the assume_role call and never
\* appears in a log entry the engine writes.
C26_SecretNeverLogged ==
    ExternalIdLogEntry \notin log

\* C27: the timer armed for a routine is disarmed whenever the routine's
\* invocation ends, by return or by exception: a timer is armed only while a
\* routine runs, and none fires in a later iteration or after the loop.
C27_TimerDisarmedAtEnd ==
    /\ alarm > 0 => (pc = "Evaluating" /\ sub = "running")
    /\ \A i \in 1..Len(trace) : trace[i].kind # "stale-timeout"
    /\ (pc = "Failed" /\ failure[1].error = MsgTimeout) =>
           failure[1].phase = "Evaluating" /\ sub = "running"

\* C28: within one run each criterion's routine is entered at most once, and
\* the definition store, the blob store and the identity provider are each
\* called at most once; nothing happens after the run failed.
C28_NoAutomaticRetry ==
    [][/\ (sub' = "running" /\ sub # "running") => idx \notin invoked
       /\ calls'.get_item <= 1 /\ calls'.get_object <= 1
       /\ calls'.assume_role <= 1
       /\ pc # "Failed"]_vars

\* A completed run of two criteria whose first routine overran its deadline:
\* both routines were entered, every collaborator was called once.
C28_Witness ==
    /\ Completed /\ NCriteria = 2 /\ invoked = {1, 2}
    /\ trace[1].kind = "timeout"
    /\ calls.get_item = 1 /\ calls.get_object = 1 /\ calls.assume_role = 1

\* The assessment started by the i-th invocation, if any.
RunsOf(i) == {r \in engineRuns : r.index = i}

\* C29: the trigger returns its summary without waiting for any invoked
\* assessment to finish: once every invocation has been answered the summary
\* can be returned, whether or not a run has started or ended.  A record has
\* status triggered as soon as its invocation is enqueued and keeps it
\* whatever the outcome of the assessment, Failed included; the summary
\* counts it as triggered.
C29_FireAndForget ==
    /\ (triggerPc = "invoking"
        /\ \A i \in 1..Len(dispatch) : dispatch[i].status # "pending")
         => ENABLED ReturnSummary
    /\ \A i \in 1..Len(dispatch) :
         (\E r \in RunsOf(i) : TRUE) =>
             /\ dispatch[i].status = "triggered"
             /\ dispatch[i].error = NoError
             /\ triggerResponse # <<>> =>
                  /\ triggerResponse[1].statusCode = 200
                  /\ triggerResponse[1].results[i].status = "triggered"
    /\ triggerResponse # <<>> =>
         triggerResponse[1].triggered =
             Cardinality({i \in 1..Len(dispatch) : dispatch[i].status = "triggered"})

\* The summary has been returned with two triggered records: the assessment
\* of the first has ended in Failed, that of the second has not started.
C29_Witness ==
    /\ triggerPc = "returned" /\ Len(dispatch) >= 2
    /\ dispatch[1].status = "triggered" /\ dispatch[2].status = "triggered"
    /\ \E r \in RunsOf(1) : r.phase = "Failed"
    /\ RunsOf(2) = {}

\* C25: two loads of different runs, overlapping in time or within the same
\* clock second, get distinct module names; no load replaces the module
\* another load registered, and no run calls a routine of a module loaded by
\* another run.
C25_LoadsGetDistinctNames ==
    /\ \A l1, l2 \in loads :
         <<l1.proc, l1.run>> # <<l2.proc, l2.run>> => l1.name # l2.name
    /\ \A l \in loads : sysModules[l.proc][l.name] = <<l.proc, l.run>>
    /\ \A c \in routineCalls : c.unit = <<c.proc, c.run>>

\* C30: a run requests credentials exactly once, after its module is loaded
\* and before any of its routines is called, and every routine call of the run
\* is handed the credentials that run obtained, never those of another run.
C30_CredentialsOwnedByRun ==
    /\ \A p \in Procs :
         /\ stsCount[p] <= 1
         /\ stsCount[p] = 1 => loadedUnit[p] = <<p, runNo[p]>>
         /\ runPc[p] \in {"evaluating", "returned"} =>
              /\ stsCount[p] = 1
              /\ runCredentials[p] = <<p, runNo[p]>>
    /\ \A c \in routineCalls :
         /\ c.authorized = 1
         /\ c.credentials = <<c.proc, c.run>>

\* One process has called routines in two consecutive runs, another process
\* in a run of its own.
C30_Witness ==
    /\ \E c \in routineCalls : c.proc = 1 /\ c.run = 1
    /\ \E c \in routineCalls : c.proc = 1 /\ c.run = 2
    /\ \E c \in routineCalls : c.proc = 2

\* The outcome the i-th criterion gets from the definition, the bundle and
\* what its routine did (returned a value, raised, overran its deadline).
OutcomeFromInputs(i) ==
    IF Criteria[i].checkFunction \notin module THEN MissingOutcome(Criteria[i])
    ELSE IF trace[i].kind = "returned" THEN OutcomeOfReturn(Criteria[i], trace[i].value)
    ELSE IF trace[i].kind = "raised" THEN ErrorOutcome(Criteria[i], MsgRoutine)
    ELSE ErrorOutcome(Criteria[i], MsgTimeout)

\* C21: two runs for the same subject and definition with identical subject
\* state and routine behaviour yield the same outcomes, score and passed: in
\* every result a run returns, each outcome is the one the definition, the
\* bundle and that criterion's routine determine, and score and passed are
\* computed from those outcomes.
C21_ResultDeterminedByInputs ==
    Completed =>
        /\ \A i \in 1..Len(response[1].results) :
             /\ trace[i].kind \in {"missing", "returned", "raised", "timeout"}
             /\ response[1].results[i] = OutcomeFromInputs(i)
        /\ response[1].score = calculate_score(response[1].results)
        /\ response[1].passed = ComputePassed(response[1].score, config)

\* C22: in the comprehensive test's sequence of stages the score the engine
\* returns at each stage is strictly greater than the score at the stage
\* before.
C22_StageScoresIncrease ==
    \A i \in 2..Len(testResults) :
        /\ testResults[i].hasScore /\ testResults[i - 1].hasScore
        /\ testResults[i].score > testResults[i - 1].score

\* A whole number between 0 and 100, in hundredths.
IsWholeScore(h) == h % 100 = 0 /\ 0 <= h /\ h <= 10000

\* C23: every reliability score the engine computes is an integer between 0
\* and 100 inclusive: what calculateScore gives for the stack analysis at
\* hand, every score returned to the test, and what calculateCodeScore gives
\* for the pattern-check results.
C23_ScoresWholeInRange ==
    /\ IsWholeScore(calculateScore(stackAnalysis))
    /\ \A i \in 1..Len(testResults) : IsWholeScore(testResults[i].score)
    /\ IsWholeScore(codeScore)
    /\ \A ulp \in {-1, 0, 1} : IsWholeScore(calculateCodeScore(patterns, ulp))

\* Code with an idempotency token and no other pattern: the weighted sum is
\* 7.5 and the score 8.
C23_Witness ==
    /\ enginePc = "codeAnalyzed"
    /\ patterns = [NoPatterns EXCEPT !.idempotency = 5000]
    /\ codeScore = 800

\* The names of a feedback list come in strictly increasing criterion order.
InCriterionOrder(list) ==
    \A a, b \in 1..Len(list) : a < b => list[a].name < list[b].name

\* C31: feedback places every criterion in exactly one of the lists
\* implemented and suggestions, in implemented exactly when its outcome is
\* implemented (the truth value the engine gives the outcome's flag), in
\* criterion order within each list; implemented entries carry name and
\* details, suggestions name and the criterion's point value.
C31_FeedbackPartitions ==
    Completed =>
        LET fb == response[1].feedback
            rs == response[1].results
            InImplemented(i) == \E a \in 1..Len(fb.implemented) :
                                    fb.implemented[a].name = Criteria[i].id
            InSuggestions(i) == \E a \in 1..Len(fb.suggestions) :
                                    fb.suggestions[a].name = Criteria[i].id
        IN  /\ Len(fb.implemented) + Len(fb.suggestions) = NCriteria
            /\ \A i \in 1..NCriteria :
                 /\ InImplemented(i) # InSuggestions(i)
                 /\ InImplemented(i) = Truthy(rs[i].implemented)
            /\ InCriterionOrder(fb.implemented) /\ InCriterionOrder(fb.suggestions)
            /\ \A a \in 1..Len(fb.implemented) :
                 DOMAIN fb.implemented[a] = {"name", "details"}
            /\ \A a \in 1..Len(fb.suggestions) :
                 /\ DOMAIN fb.suggestions[a] = {"name", "points"}
                 /\ fb.suggestions[a].points =
                        Criteria[fb.suggestions[a].name].points

\* A completed run of two criteria, the first implemented, the second not.
C31_Witness ==
    /\ Completed /\ NCriteria = 2
    /\ response[1].results[1].implemented = "True"
    /\ response[1].results[2].implemented = "False"
    /\ Len(response[1].feedback.implemented) = 1
    /\ Len(response[1].feedback.suggestions) = 1

\* C32: every run eventually ends in Persisted or Failed, even when a
\* routine never returns, provided the stores and the identity provider
\* answer each call.
C32_RunEventuallyEnds ==
    <>(pc \in {"Persisted", "Failed"})

\* C33: for every participant id p, the resource-change parsing rule applied
\* to the name of the stack the engine assesses for p gives p again: a change
\* to p's stack triggers an assessment of p and of nobody else.
C33_StackNameRoundTrip ==
    \A p \in Subjects :
        (/\ source = "resource-change" /\ triggerPc # "identify"
         /\ triggerEvent.stackId.present /\ triggerEvent.stackId.hasSlash
         /\ triggerEvent.stackId.name = StackNameOf(p))
            => /\ participantIds = <<p>>
               /\ \A i \in 1..Len(invocations) :
                      invocations[i].participantId = p

\* C34: the trigger's handler always returns a response and never throws:
\* until it has returned it has a step to take, and what it returns for n
\* unique work items is a 200 response whose results list has n records, one
\* per participant in order, each triggered or failed, the two counts adding
\* up to n.
C34_TriggerAlwaysAnswers ==
    /\ triggerPc # "returned" =>
         /\ triggerResponse = <<>>
         /\ ENABLED (\/ IdentifyAndExtract \/ GetActiveParticipants
                     \/ GetParticipantsFromStacks \/ NoParticipants
                     \/ StartInvocations \/ ReturnSummary
                     \/ \E i \in 1..Len(dispatch) : InvokeSettles(i))
    /\ triggerPc = "returned" =>
         /\ Len(triggerResponse) = 1
         /\ triggerResponse[1].statusCode = 200
         /\ LET n == Len(participantIds)
                rs == triggerResponse[1].results
            IN  /\ Len(rs) = n
                /\ \A i \in 1..Len(rs) :
                     /\ rs[i].participantId = participantIds[i]
                     /\ rs[i].status \in {"triggered", "failed"}
                /\ \A i, j \in 1..n :
                     i # j => participantIds[i] # participantIds[j]
                /\ triggerResponse[1].triggered + triggerResponse[1].failed = n

\* The summary for two work items: one invocation enqueued, one refused.
C34_Witness ==
    /\ triggerPc = "returned" /\ Len(participantIds) = 2
    /\ triggerResponse[1].triggered = 1 /\ triggerResponse[1].failed = 1

\* C35: the engine writes a participant's flag record only in a run whose
\* score is at least 80 and only after that run's score update succeeded; a
\* run that scores below 80, or whose score update fails, writes no flag.
C35_FlagOnlyAfterRecordedPass ==
    \A i \in 1..Len(assessments) :
        LET a == assessments[i] IN
        /\ a.flagged => (a.score >= 8000 /\ a.updated)
        /\ (a.score < 8000 \/ ~a.updated) => ~a.flagged
        /\ (enginePc = "flagged" /\ i = Len(assessments)) => a.flagged

\* One run wrote the flag; another scored 100 but its score update failed.
C35_Witness ==
    \E i, j \in 1..Len(assessments) :
        /\ assessments[i].flagged /\ assessments[i].returned
        /\ assessments[j].score = 10000 /\ ~assessments[j].updated

\* C36: when the stack template cannot be fetched or parsed, analyzeStack
\* returns an error record instead of throwing; the engine goes on, scores 0,
\* still records that score, reports passed = false and reveals no flag.
C36_AnalysisErrorScoresZero ==
    /\ (enginePc \in {"updated", "flagged", "returned"} /\ stage > 0) =>
           /\ Len(assessments) = stage
           /\ CurrentRun.analysisError = ~stackAnalysis.hasAnalysis
    /\ \A i \in 1..Len(assessments) :
         LET a == assessments[i] IN
         a.analysisError =>
             /\ a.scored
             /\ a.score = 0
             /\ ~a.flagged
             /\ a.updated => (i < Len(assessments) \/ enginePc # "flagged")
             /\ a.returned => /\ a.updated
                              /\ testResults[i].hasScore
                              /\ testResults[i].score = 0
                              /\ testResults[i].passed = FALSE

\* A stack name that starts with ctf-unreliable-app- and goes on.
CarriesExpectedPrefix(name) ==
    /\ Len(name) > 3
    /\ name[1] = "ctf" /\ name[2] = "unreliable" /\ name[3] = "app"

\* C37: for a scheduled event, when the query for the active participants
\* fails the trigger falls back to the stack listing and takes the
\* participants parsed from the listed stacks that carry the expected prefix;
\* when the listing fails too, the event yields no work item, no invocation
\* and a response that is not an error.
C37_QueryFailureFallsBack ==
    /\ lookups.query # "none" => source = "scheduled-event"
    /\ lookups.listing # "none" => lookups.query = "failed"
    /\ lookups.query = "failed" =>
         \/ lookups.listing = "none" /\ triggerPc = "stacks"
                                     /\ ENABLED GetParticipantsFromStacks
         \/ lookups.listing # "none" /\ triggerPc # "stacks"
    /\ (lookups.query = "failed" /\ lookups.listing = "ok") =>
         /\ \A i \in 1..Len(participantIds) :
              \E k \in 1..Len(lookups.stacks) :
                  /\ CarriesExpectedPrefix(lookups.stacks[k])
                  /\ participantIds[i] = <<lookups.stacks[k][4]>>
         /\ \A k \in 1..Len(lookups.stacks) :
              CarriesExpectedPrefix(lookups.stacks[k]) =>
                  \E i \in 1..Len(participantIds) :
                      participantIds[i] = <<lookups.stacks[k][4]>>
    /\ (lookups.query = "failed" /\ lookups.listing = "failed") =>
         /\ participantIds = <<>>
         /\ invocations = <<>> /\ dispatch = <<>> /\ engineRuns = {}
         /\ triggerPc \in {"check", "returned"}
         /\ triggerPc = "check" => ENABLED NoParticipants
         /\ triggerPc = "returned" =>
              /\ triggerResponse[1].statusCode = 200
              /\ triggerResponse[1].results = <<>>

\* A scheduled event whose query and stack listing both failed has been
\* answered.
C37_Witness ==
    /\ source = "scheduled-event"
    /\ lookups.query = "failed" /\ lookups.listing = "failed"
    /\ triggerPc = "returned" /\ triggerResponse[1].statusCode = 200

====
